---- MODULE Spec2Model ----
(***************************************************************************)
(* Model of the Observability Agent extension (extension/src/extension.ts):*)
(* the chat panel controller (ObservabilityPanel), the visualization panel *)
(* registry (ArchDriftPanel), the response classification inside handleAsk *)
(* and the JSON-over-HTTP transport (postJson).                            *)
(*                                                                         *)
(* Strings are sequences of one-character strings, so that trim(),         *)
(* toLowerCase(), includes() and JSON.parse() are computed, not assumed.   *)
(***************************************************************************)
EXTENDS Integers, Sequences, FiniteSets, TLC

(***************************************************************************)
(* Bounds of the model.                                                    *)
(***************************************************************************)
MaxChatPanels == 2
MaxArchPanels == 2
MaxAsks == 2

(***************************************************************************)
(* String primitives.                                                      *)
(***************************************************************************)
\* Characters String.prototype.trim() strips (the ones the inputs use).
WhiteSpace == {" ", "\t", "\n"}

RECURSIVE TrimStart(_)
TrimStart(s) ==
    IF s # << >> /\ Head(s) \in WhiteSpace THEN TrimStart(Tail(s)) ELSE s

RECURSIVE TrimEnd(_)
TrimEnd(s) ==
    IF s # << >> /\ s[Len(s)] \in WhiteSpace
    THEN TrimEnd(SubSeq(s, 1, Len(s) - 1))
    ELSE s

\* Mutant of Trim: the text is tested and sent as received.
Trim_None(s) == s

\* question.trim()
Trim(s) == TrimEnd(TrimStart(s))

UpperCase == <<"A", "B", "C", "D", "E", "F", "G", "H", "I", "J", "K", "L", "M",
               "N", "O", "P", "Q", "R", "S", "T", "U", "V", "W", "X", "Y", "Z">>
LowerCase == <<"a", "b", "c", "d", "e", "f", "g", "h", "i", "j", "k", "l", "m",
               "n", "o", "p", "q", "r", "s", "t", "u", "v", "w", "x", "y", "z">>

LowerChar(c) ==
    IF \E k \in 1..26 : UpperCase[k] = c
    THEN LowerCase[CHOOSE k \in 1..26 : UpperCase[k] = c]
    ELSE c

\* String.prototype.toLowerCase()
ToLowerCase(s) == [k \in 1..Len(s) |-> LowerChar(s[k])]

\* String.prototype.includes(sub)
Includes(s, sub) ==
    \E k \in 1..(Len(s) - Len(sub) + 1) : SubSeq(s, k, k + Len(sub) - 1) = sub

(***************************************************************************)
(* JavaScript values.  Every value is a record tagged by t.                *)
(***************************************************************************)
JUndefined == [t |-> "undefined"]
JNull == [t |-> "null"]
JBool(b) == [t |-> "boolean", b |-> b]
JNum(lexeme) == [t |-> "number", n |-> lexeme]
JStr(s) == [t |-> "string", s |-> s]
JArr(a) == [t |-> "array", a |-> a]
JObj(f) == [t |-> "object", f |-> f]
EmptyFields == [k \in {} |-> JUndefined]

\* v ?? d
Coalesce(v, d) == IF v.t \in {"undefined", "null"} THEN d ELSE v

\* Property read data.key on a non-nullish value: own fields of an object,
\* undefined on anything else (no array, number, boolean or string has one
\* of the five response properties).
GetField(data, key) ==
    IF data.t = "object" /\ key \in DOMAIN data.f THEN data.f[key] ELSE JUndefined

Key_answer == <<"a", "n", "s", "w", "e", "r">>
Key_score == <<"s", "c", "o", "r", "e">>
Key_trace == <<"t", "r", "a", "c", "e">>
Key_mode == <<"m", "o", "d", "e">>
Key_drift_data == <<"d", "r", "i", "f", "t", "_", "d", "a", "t", "a">>

(***************************************************************************)
(* JSON.parse: a recursive-descent parser over the characters of the body. *)
(* It covers the JSON grammar except \b \f \r \uXXXX escapes and number    *)
(* exponents, which no body of the model uses.  A result is                *)
(* [ok, v, i]: whether a value was read, the value, and the next position. *)
(***************************************************************************)
JsonWs == {" ", "\t", "\n"}
Digits == {"0", "1", "2", "3", "4", "5", "6", "7", "8", "9"}
ParseFail == [ok |-> FALSE, v |-> JUndefined, i |-> 0]
ParseOk(v, i) == [ok |-> TRUE, v |-> v, i |-> i]

RECURSIVE SkipWs(_, _)
SkipWs(s, i) == IF i <= Len(s) /\ s[i] \in JsonWs THEN SkipWs(s, i + 1) ELSE i

RECURSIVE SkipDigits(_, _)
SkipDigits(s, i) == IF i <= Len(s) /\ s[i] \in Digits THEN SkipDigits(s, i + 1) ELSE i

At(s, i) == IF i >= 1 /\ i <= Len(s) THEN s[i] ELSE "EOF"

ParseLiteral(s, i, lit, v) ==
    IF i + Len(lit) - 1 <= Len(s) /\ SubSeq(s, i, i + Len(lit) - 1) = lit
    THEN ParseOk(v, i + Len(lit))
    ELSE ParseFail

\* -? (0 | [1-9][0-9]*) (. [0-9]+)?
ParseNumber(s, i) ==
    LET j == IF At(s, i) = "-" THEN i + 1 ELSE i
        k == IF At(s, j) = "0" THEN j + 1 ELSE SkipDigits(s, j)
        m == IF At(s, k) = "." THEN SkipDigits(s, k + 1) ELSE k
    IN  IF k = j \/ (At(s, k) = "." /\ m = k + 1)
        THEN ParseFail
        ELSE ParseOk(JNum(SubSeq(s, i, m - 1)), m)

\* The characters of a string literal from position i (after the opening
\* quote) up to the closing quote; acc collects the decoded characters.
RECURSIVE ParseChars(_, _, _)
ParseChars(s, i, acc) ==
    IF i > Len(s) \/ s[i] \in {"\t", "\n"} THEN ParseFail
    ELSE IF s[i] = "\"" THEN ParseOk(JStr(acc), i + 1)
    ELSE IF s[i] = "\\"
         THEN IF At(s, i + 1) \in {"\"", "\\", "/"}
              THEN ParseChars(s, i + 2, Append(acc, s[i + 1]))
              ELSE IF At(s, i + 1) = "n" THEN ParseChars(s, i + 2, Append(acc, "\n"))
              ELSE IF At(s, i + 1) = "t" THEN ParseChars(s, i + 2, Append(acc, "\t"))
              ELSE ParseFail
    ELSE ParseChars(s, i + 1, Append(acc, s[i]))

ParseString(s, i) == IF At(s, i) = "\"" THEN ParseChars(s, i + 1, << >>) ELSE ParseFail

RECURSIVE ParseValue(_, _)
RECURSIVE ParseMembers(_, _, _)
RECURSIVE ParseElements(_, _, _)

\* members of an object from position i (at a key); a repeated key keeps
\* its last value.
ParseMembers(s, i, f) ==
    LET k == ParseString(s, SkipWs(s, i))
        c == SkipWs(s, k.i)
        v == ParseValue(s, c + 1)
        e == SkipWs(s, v.i)
        g == [x \in DOMAIN f \cup {k.v.s} |-> IF x = k.v.s THEN v.v ELSE f[x]]
    IN  IF ~k.ok \/ At(s, c) # ":" THEN ParseFail
        ELSE IF ~v.ok THEN ParseFail
        ELSE IF At(s, e) = "," THEN ParseMembers(s, e + 1, g)
        ELSE IF At(s, e) = "}" THEN ParseOk(JObj(g), e + 1)
        ELSE ParseFail

ParseElements(s, i, a) ==
    LET v == ParseValue(s, i)
        e == SkipWs(s, v.i)
    IN  IF ~v.ok THEN ParseFail
        ELSE IF At(s, e) = "," THEN ParseElements(s, e + 1, Append(a, v.v))
        ELSE IF At(s, e) = "]" THEN ParseOk(JArr(Append(a, v.v)), e + 1)
        ELSE ParseFail

ParseValue(s, i) ==
    LET j == SkipWs(s, i)
        c == At(s, j)
    IN  IF c = "{"
        THEN IF At(s, SkipWs(s, j + 1)) = "}"
             THEN ParseOk(JObj(EmptyFields), SkipWs(s, j + 1) + 1)
             ELSE ParseMembers(s, j + 1, EmptyFields)
        ELSE IF c = "["
        THEN IF At(s, SkipWs(s, j + 1)) = "]"
             THEN ParseOk(JArr(<< >>), SkipWs(s, j + 1) + 1)
             ELSE ParseElements(s, j + 1, << >>)
        ELSE IF c = "\"" THEN ParseString(s, j)
        ELSE IF c = "n" THEN ParseLiteral(s, j, <<"n", "u", "l", "l">>, JNull)
        ELSE IF c = "t" THEN ParseLiteral(s, j, <<"t", "r", "u", "e">>, JBool(TRUE))
        ELSE IF c = "f" THEN ParseLiteral(s, j, <<"f", "a", "l", "s", "e">>, JBool(FALSE))
        ELSE IF c = "-" \/ c \in Digits THEN ParseNumber(s, j)
        ELSE ParseFail

\* JSON.parse(data): the whole text must be one value; otherwise it throws
\* a SyntaxError.
JSONparse(s) ==
    LET r == ParseValue(s, 1)
    IN  IF r.ok /\ SkipWs(s, r.i) = Len(s) + 1
        THEN [ok |-> TRUE, v |-> r.v]
        ELSE [ok |-> FALSE, v |-> JUndefined]

(***************************************************************************)
(* Inputs: the texts a webview can post, the bodies and statuses the       *)
(* service can return, the causes a request can fail with.                 *)
(***************************************************************************)
Text_Blank == <<" ", "\t", "\n">>
Text_PaddedQ == <<" ", "q", "\n">>
Text_Inner == <<"a", " ", "b">>

\* message.text of an inbound ask: a string (empty, blank, or a question
\* with surrounding whitespace), or absent.
AskTexts ==
    {JStr(<< >>), JStr(Text_Blank), JStr(Text_PaddedQ), JUndefined}

Body_Answer == <<"{", "\"", "a", "n", "s", "w", "e", "r", "\"", ":", "\"", "s", "l", "o", "w", " ", "d", "b", "\"", ",", "\"", "s", "c", "o", "r", "e", "\"", ":", "0", ".", "9", "5", "}">>
Body_Full == <<"{", "\"", "a", "n", "s", "w", "e", "r", "\"", ":", "\"", "o", "k", "\"", ",", "\"", "s", "c", "o", "r", "e", "\"", ":", "1", ",", "\"", "t", "r", "a", "c", "e", "\"", ":", "[", "1", "]", ",", "\"", "m", "o", "d", "e", "\"", ":", "\"", "r", "a", "g", "\"", ",", "\"", "d", "r", "i", "f", "t", "_", "d", "a", "t", "a", "\"", ":", "{", "}", "}">>
Body_ModeOnly == <<"{", "\"", "m", "o", "d", "e", "\"", ":", "\"", "a", "r", "c", "h", "_", "d", "r", "i", "f", "t", "\"", "}">>
Body_ModeAndAnswer == <<"{", "\"", "m", "o", "d", "e", "\"", ":", " ", "\"", "a", "r", "c", "h", "_", "d", "r", "i", "f", "t", "\"", ",", " ", "\"", "a", "n", "s", "w", "e", "r", "\"", ":", " ", "\"", "h", "i", "\"", "}">>
Body_ModeAndNumber == <<"{", "\"", "m", "o", "d", "e", "\"", ":", "\"", "a", "r", "c", "h", "_", "d", "r", "i", "f", "t", "\"", ",", "\"", "a", "n", "s", "w", "e", "r", "\"", ":", "5", "}">>
Body_ModeAndLink == <<"{", "\"", "a", "n", "s", "w", "e", "r", "\"", ":", "\"", "a", "r", "c", "h", "d", "r", "i", "f", "t", " ", "u", "i", "\"", ",", "\"", "m", "o", "d", "e", "\"", ":", "\"", "a", "r", "c", "h", "_", "d", "r", "i", "f", "t", "\"", "}">>
Body_ModeUpper == <<"{", "\"", "m", "o", "d", "e", "\"", ":", "\"", "A", "R", "C", "H", "_", "D", "R", "I", "F", "T", "\"", "}">>
Body_LinkText == <<"{", "\"", "a", "n", "s", "w", "e", "r", "\"", ":", "\"", "O", "p", "e", "n", " ", "t", "h", "e", " ", "A", "r", "c", "h", "D", "r", "i", "f", "t", " ", "U", "I", "\"", "}">>
Body_LinkOtherMode == <<"{", "\"", "m", "o", "d", "e", "\"", ":", "\"", "r", "a", "g", "\"", ",", "\"", "a", "n", "s", "w", "e", "r", "\"", ":", "\"", "A", "R", "C", "H", "D", "R", "I", "F", "T", " ", "U", "I", "\"", "}">>
Body_NearLink == <<"{", "\"", "a", "n", "s", "w", "e", "r", "\"", ":", "\"", "a", "r", "c", "h", "d", "r", "i", "f", "t", "-", "u", "i", "\"", "}">>
Body_AnswerNumber == <<"{", "\"", "a", "n", "s", "w", "e", "r", "\"", ":", "5", "}">>
Body_AnswerNull == <<"{", "\"", "a", "n", "s", "w", "e", "r", "\"", ":", "n", "u", "l", "l", ",", "\"", "s", "c", "o", "r", "e", "\"", ":", "n", "u", "l", "l", "}">>
Body_EmptyObject == <<"{", "}">>
Body_Empty == << >>
Body_Truncated == <<"{", "\"", "a", "n", "s", "w", "e", "r", "\"", ":", "\"", "x", "\"">>
Body_TrailingComma == <<"{", "\"", "a", "n", "s", "w", "e", "r", "\"", ":", "\"", "x", "\"", ",", "}">>
Body_PlainText == <<"I", "n", "t", "e", "r", "n", "a", "l", " ", "e", "r", "r", "o", "r">>
Body_Html == <<"<", "h", "t", "m", "l", ">">>
Body_Null == <<"n", "u", "l", "l">>
Body_Array == <<"[", "]">>
Body_Number == <<"7">>
Body_String == <<"\"", "a", "r", "c", "h", "d", "r", "i", "f", "t", " ", "u", "i", "\"">>

\* The responses and failures of the panel and exchange lifecycle (Spec).
Bodies == {Body_Answer, Body_ModeOnly, Body_Html}
Statuses == {200, 404}
RequestErrors == {<<"connect ECONNREFUSED 127.0.0.1:8000">>}

\* The responses and failures of one exchange in detail (SpecTransport).
AllBodies ==
    {Body_Answer, Body_Full, Body_ModeOnly, Body_ModeAndAnswer, Body_ModeAndNumber,
     Body_ModeAndLink, Body_ModeUpper, Body_LinkText, Body_LinkOtherMode,
     Body_NearLink, Body_AnswerNumber, Body_AnswerNull, Body_EmptyObject,
     Body_Empty, Body_Truncated, Body_TrailingComma, Body_PlainText, Body_Html,
     Body_Null, Body_Array, Body_Number, Body_String}
AllStatuses == {200, 201, 204, 301, 302, 399, 400, 404, 500, 503}
AllRequestErrors ==
    {<<"connect ECONNREFUSED 127.0.0.1:8000">>, <<"socket hang up">>, << >>}

(***************************************************************************)
(* postJson (extension.ts 308-352).  A settled promise is                  *)
(* [ok |-> TRUE, data |-> value] or [ok |-> FALSE, err |-> error], an      *)
(* error being [name, message], the message a sequence of text parts.      *)
(***************************************************************************)
Resolve(v) == [ok |-> TRUE, data |-> v]
Reject(e) == [ok |-> FALSE, err |-> e]
Error(name, message) == [name |-> name, message |-> message]

\* new Error(`HTTP error! status: ${res.statusCode}`)
HttpError(status) == Error("Error", <<"HTTP error! status: ", ToString(status)>>)
\* what JSON.parse throws; the engine's wording is not modelled.
SyntaxError == Error("SyntaxError", <<"Unexpected token or end of JSON input">>)
\* what reading a property of null throws.
TypeError == Error("TypeError", <<"Cannot read properties of null">>)

\* Mutant of postJsonEnd: a body that does not parse counts as an empty
\* object.
postJsonEnd_SwallowsParseError(status, data) ==
    IF status # 0 /\ status >= 400
    THEN Reject(HttpError(status))
    ELSE LET parsed == IF data # << >>
                       THEN JSONparse(data)
                       ELSE [ok |-> TRUE, v |-> JObj(EmptyFields)]
         IN  IF parsed.ok THEN Resolve(parsed.v) ELSE Resolve(JObj(EmptyFields))

\* Mutant of postJsonEnd: the body is parsed before the status is checked.
postJsonEnd_ParseFirst(status, data) ==
    LET parsed == IF data # << >>
                  THEN JSONparse(data)
                  ELSE [ok |-> TRUE, v |-> JObj(EmptyFields)]
    IN  IF ~parsed.ok THEN Reject(SyntaxError)
        ELSE IF status # 0 /\ status >= 400 THEN Reject(HttpError(status))
        ELSE Resolve(parsed.v)

\* res.on('end'): the status check, then the parse of the collected body.
postJsonEnd(status, data) ==
    IF status # 0 /\ status >= 400
    THEN Reject(HttpError(status))
    ELSE LET parsed == IF data # << >>
                       THEN JSONparse(data)
                       ELSE [ok |-> TRUE, v |-> JObj(EmptyFields)]
         IN  IF parsed.ok THEN Resolve(parsed.v) ELSE Reject(SyntaxError)

\* req.on('error')
postJsonError(message) == Reject(Error("Error", message))

(***************************************************************************)
(* Messages posted to the chat webview (extension.ts 147-150, 175-183,     *)
(* 187-193).                                                               *)
(***************************************************************************)
UNREACHABLE_PREFIX ==
    "Could not reach the observability service at http://localhost:8000/ask. Is it running?\n\n"
ARCH_DRIFT_MODE == <<"a", "r", "c", "h", "_", "d", "r", "i", "f", "t">>
ARCHDRIFT_LINK_TEXT == <<"a", "r", "c", "h", "d", "r", "i", "f", "t", " ", "u", "i">>

StatusMessage == [type |-> "status", message |-> <<"Thinking...">>]

\* Mutant of AnswerMessage: an absent score is reported as 0.
AnswerMessage_ScoreZero(trimmedQuestion, data) ==
    [type |-> "answer",
     question |-> trimmedQuestion,
     answer |-> Coalesce(GetField(data, Key_answer), JStr(<< >>)),
     score |-> Coalesce(GetField(data, Key_score), JNum(<<"0">>)),
     trace |-> Coalesce(GetField(data, Key_trace), JNull),
     mode |-> Coalesce(GetField(data, Key_mode), JNull),
     drift_data |-> Coalesce(GetField(data, Key_drift_data), JNull)]

AnswerMessage(trimmedQuestion, data) ==
    [type |-> "answer",
     question |-> trimmedQuestion,
     answer |-> Coalesce(GetField(data, Key_answer), JStr(<< >>)),
     score |-> Coalesce(GetField(data, Key_score), JNull),
     trace |-> Coalesce(GetField(data, Key_trace), JNull),
     mode |-> Coalesce(GetField(data, Key_mode), JNull),
     drift_data |-> Coalesce(GetField(data, Key_drift_data), JNull)]

\* Mutant of ErrorMessage: the cause text is left out.
ErrorMessage_NoCause(trimmedQuestion, err) ==
    [type |-> "error",
     question |-> trimmedQuestion,
     message |-> <<UNREACHABLE_PREFIX>>]

ErrorMessage(trimmedQuestion, err) ==
    [type |-> "error",
     question |-> trimmedQuestion,
     message |-> <<UNREACHABLE_PREFIX>> \o err.message]

\* Mutant of isArchDrift: the answer is searched without toLowerCase().
isArchDrift_CaseSensitive(data) ==
    \/ GetField(data, Key_mode) = JStr(ARCH_DRIFT_MODE)
    \/ /\ GetField(data, Key_answer).t = "string"
       /\ Includes(GetField(data, Key_answer).s, ARCHDRIFT_LINK_TEXT)

\* extension.ts 163-166
isArchDrift(data) ==
    \/ GetField(data, Key_mode) = JStr(ARCH_DRIFT_MODE)
    \/ /\ GetField(data, Key_answer).t = "string"
       /\ Includes(ToLowerCase(GetField(data, Key_answer).s), ARCHDRIFT_LINK_TEXT)

\* Mutant of Continuation: no return after ArchDriftPanel.createOrShow(), so
\* the answer message is posted as well.
Continuation_FallThrough(trimmedQuestion, settled) ==
    IF ~settled.ok
    THEN [kind |-> "error", redirect |-> FALSE,
          posts |-> <<ErrorMessage(trimmedQuestion, settled.err)>>]
    ELSE IF settled.data.t \in {"null", "undefined"}
    THEN [kind |-> "error", redirect |-> FALSE,
          posts |-> <<ErrorMessage(trimmedQuestion, TypeError)>>]
    ELSE IF isArchDrift(settled.data)
    THEN [kind |-> "redirect", redirect |-> TRUE,
          posts |-> <<AnswerMessage(trimmedQuestion, settled.data)>>]
    ELSE [kind |-> "answer", redirect |-> FALSE,
          posts |-> <<AnswerMessage(trimmedQuestion, settled.data)>>]

\* Mutant of Continuation: the catch block posts nothing.
Continuation_SilentFailure(trimmedQuestion, settled) ==
    IF ~settled.ok
    THEN [kind |-> "error", redirect |-> FALSE, posts |-> << >>]
    ELSE IF settled.data.t \in {"null", "undefined"}
    THEN [kind |-> "error", redirect |-> FALSE, posts |-> << >>]
    ELSE IF isArchDrift(settled.data)
    THEN [kind |-> "redirect", redirect |-> TRUE, posts |-> << >>]
    ELSE [kind |-> "answer", redirect |-> FALSE,
          posts |-> <<AnswerMessage(trimmedQuestion, settled.data)>>]

\* The part of handleAsk after the await (extension.ts 154-194) as what it
\* decides: whether ArchDriftPanel.createOrShow is called, and the messages
\* it posts.  Reading data.mode of null throws inside the try block and
\* lands in the catch.
Continuation(trimmedQuestion, settled) ==
    IF ~settled.ok
    THEN [kind |-> "error", redirect |-> FALSE,
          posts |-> <<ErrorMessage(trimmedQuestion, settled.err)>>]
    ELSE IF settled.data.t \in {"null", "undefined"}
    THEN [kind |-> "error", redirect |-> FALSE,
          posts |-> <<ErrorMessage(trimmedQuestion, TypeError)>>]
    ELSE IF isArchDrift(settled.data)
    THEN [kind |-> "redirect", redirect |-> TRUE, posts |-> << >>]
    ELSE [kind |-> "answer", redirect |-> FALSE,
          posts |-> <<AnswerMessage(trimmedQuestion, settled.data)>>]

(***************************************************************************)
(* State.  Panel instances of a kind are numbered in creation order; 0 is  *)
(* "no panel".                                                             *)
(***************************************************************************)
VARIABLES
    currentPanel,   \* ObservabilityPanel.currentPanel: a controller, or 0 for undefined
    chatCreated,    \* number of chat panels (and controllers) constructed so far
    chatDisposed,   \* chat panels the host has disposed
    listeners,      \* controllers whose onDidReceiveMessage subscription is in _disposables
    archPanels,     \* ArchDriftPanel.panels: a map from panel key to panel
    archCreated,    \* number of visualization panels constructed so far
    archDisposed,   \* visualization panels the host has disposed
    nAsks,          \* number of handleAsk calls that passed the empty check
    inflight,       \* handleAsk calls suspended at the await: exchange -> [owner, question]
    calls,          \* the postJson calls issued, in order
    log,            \* the webview.postMessage calls made, in order
    last,           \* the handler that ran last, with its input and what it did
    surface         \* the chat webview of extension.js: [busy, seen, outbox]

vars == <<currentPanel, chatCreated, chatDisposed, listeners, archPanels,
          archCreated, archDisposed, nAsks, inflight, calls, log, last, surface>>

panelKey == "archdrift-main"
ASK_URL == "http://localhost:8000/ask"

ChatLive == (1..chatCreated) \ chatDisposed
ArchLive == (1..archCreated) \ archDisposed

NoExchanges == [e \in {} |-> [owner |-> 0, question |-> << >>]]
NoPanels == [k \in {} |-> 0]

\* What a handler did besides the state it changed.
Did(op, panel, ex, arg) ==
    [op |-> op, panel |-> panel, ex |-> ex, arg |-> arg,
     threw |-> FALSE, revealed |-> 0, created |-> 0, opened |-> JUndefined]

\* The webview script's state after load (extension.js 289-360): controls
\* enabled, no message of the extension handled, no message to it pending.
NoSurface == [busy |-> FALSE, seen |-> 0, outbox |-> << >>]

Init ==
    /\ currentPanel = 0
    /\ chatCreated = 0
    /\ chatDisposed = {}
    /\ listeners = {}
    /\ archPanels = NoPanels
    /\ archCreated = 0
    /\ archDisposed = {}
    /\ nAsks = 0
    /\ inflight = NoExchanges
    /\ calls = << >>
    /\ log = << >>
    /\ last = Did("activate", 0, 0, JUndefined)
    /\ surface = NoSurface

(***************************************************************************)
(* ObservabilityPanel.createOrShow (extension.ts 83-106) with the          *)
(* constructor (108-138), run by the observabilityAgent.openChat command.  *)
(***************************************************************************)
\* Mutant of createOrShowChat: no test of currentPanel, a panel is always
\* created.
createOrShowChat_AlwaysCreate ==
    /\ chatCreated < MaxChatPanels
    /\ chatCreated' = chatCreated + 1
    /\ currentPanel' = chatCreated + 1
    /\ listeners' = listeners \cup {chatCreated + 1}
    /\ last' = [Did("openChat", 0, 0, JUndefined) EXCEPT !.created = chatCreated + 1]

createOrShowChat ==
    IF currentPanel # 0
    THEN /\ last' = [Did("openChat", 0, 0, JUndefined) EXCEPT !.revealed = currentPanel]
         /\ UNCHANGED <<currentPanel, chatCreated, listeners>>
    ELSE /\ chatCreated < MaxChatPanels
         /\ chatCreated' = chatCreated + 1
         /\ currentPanel' = chatCreated + 1
         /\ listeners' = listeners \cup {chatCreated + 1}
         /\ last' = [Did("openChat", 0, 0, JUndefined) EXCEPT !.created = chatCreated + 1]

OpenChat ==
    /\ createOrShowChat
    /\ UNCHANGED <<surface, chatDisposed, archPanels, archCreated, archDisposed,
                   nAsks, inflight, calls, log>>

(***************************************************************************)
(* ObservabilityPanel.dispose (extension.ts 197-209), run by the panel's   *)
(* onDidDispose when the host closes chat panel p.                         *)
(***************************************************************************)
\* Mutant of dispose: the disposables, the message listener among them,
\* are not disposed.
dispose_KeepsListener(p) ==
    /\ currentPanel' = 0
    /\ chatDisposed' = chatDisposed \cup {p}
    /\ listeners' = listeners

\* Mutant of dispose: the registry entry is not cleared.
dispose_KeepsEntry(p) ==
    /\ currentPanel' = currentPanel
    /\ chatDisposed' = chatDisposed \cup {p}
    /\ listeners' = listeners \ {p}

dispose(p) ==
    /\ currentPanel' = 0
    /\ chatDisposed' = chatDisposed \cup {p}
    /\ listeners' = listeners \ {p}

\* Mutant of CloseChat: closing the panel abandons the calls it is awaiting.
CloseChat_AbortsRequests(p) ==
    /\ p \in ChatLive
    /\ dispose(p)
    /\ last' = Did("closeChat", p, 0, JUndefined)
    /\ inflight' = [e \in {d \in DOMAIN inflight : inflight[d].owner # p} |-> inflight[e]]
    /\ UNCHANGED <<surface, chatCreated, archPanels, archCreated, archDisposed,
                   nAsks, calls, log>>

CloseChat(p) ==
    /\ p \in ChatLive
    /\ dispose(p)
    /\ last' = Did("closeChat", p, 0, JUndefined)
    /\ UNCHANGED <<surface, chatCreated, archPanels, archCreated, archDisposed,
                   nAsks, inflight, calls, log>>

(***************************************************************************)
(* ArchDriftPanel.createOrShow (extension.ts 13-49) as the change it makes *)
(* to the registry and the panels: [panels, created, revealed].            *)
(***************************************************************************)
\* Mutant of createOrShowArch: no test of the registry, a panel is always
\* created.
createOrShowArch_AlwaysCreate ==
    [panels |-> [k \in DOMAIN archPanels \cup {panelKey} |->
                    IF k = panelKey THEN archCreated + 1 ELSE archPanels[k]],
     created |-> archCreated + 1,
     revealed |-> 0]

createOrShowArch ==
    IF panelKey \in DOMAIN archPanels /\ archPanels[panelKey] # 0
    THEN [panels |-> archPanels, created |-> 0, revealed |-> archPanels[panelKey]]
    ELSE [panels |-> [k \in DOMAIN archPanels \cup {panelKey} |->
                         IF k = panelKey THEN archCreated + 1 ELSE archPanels[k]],
          created |-> archCreated + 1,
          revealed |-> 0]

\* Mutant of archOnDidDispose: the registry entry is not deleted.
archOnDidDispose_KeepsEntry ==
    archPanels

\* The onDidDispose callback of a visualization panel (extension.ts 44-46).
archOnDidDispose ==
    [k \in DOMAIN archPanels \ {panelKey} |-> archPanels[k]]

\* Mutant of CloseArch: closing a visualization panel clears the chat
\* registry entry as well.
CloseArch_ClearsChatEntry(p) ==
    /\ p \in ArchLive
    /\ archPanels' = archOnDidDispose
    /\ archDisposed' = archDisposed \cup {p}
    /\ currentPanel' = 0
    /\ last' = Did("closeArch", p, 0, JUndefined)
    /\ UNCHANGED <<surface, chatCreated, chatDisposed, listeners,
                   archCreated, nAsks, inflight, calls, log>>

CloseArch(p) ==
    /\ p \in ArchLive
    /\ archPanels' = archOnDidDispose
    /\ archDisposed' = archDisposed \cup {p}
    /\ last' = Did("closeArch", p, 0, JUndefined)
    /\ UNCHANGED <<surface, currentPanel, chatCreated, chatDisposed, listeners,
                   archCreated, nAsks, inflight, calls, log>>

(***************************************************************************)
(* The onDidReceiveMessage handler of controller p (extension.ts 120-137)  *)
(* and handleAsk up to the await (140-154).                                *)
(***************************************************************************)
Posted(p, e, msg) == [to |-> p, ex |-> e, msg |-> msg]

\* Mutant of Post: the messages are placed before everything posted so far.
Post_AtFront(p, e, msgs) == [k \in 1..Len(msgs) |-> Posted(p, e, msgs[k])] \o log

\* Mutant of Post: the messages are placed by the exchange's number, before
\* those of exchanges submitted later.
Post_InSubmissionOrder(p, e, msgs) ==
    SelectSeq(log, LAMBDA m : m.ex <= e)
        \o [k \in 1..Len(msgs) |-> Posted(p, e, msgs[k])]
        \o SelectSeq(log, LAMBDA m : m.ex > e)

\* The messages of exchange e that msgs posts on panel p, appended to the log.
Post(p, e, msgs) == log \o [k \in 1..Len(msgs) |-> Posted(p, e, msgs[k])]

\* Mutant of postsBeforeAwait: no status message.
postsBeforeAwait_None == << >>

\* What handleAsk posts before it calls postJson (extension.ts 146-150).
postsBeforeAwait == <<StatusMessage>>

\* Mutant of handleAsk: a question is dropped while a call is being awaited.
handleAsk_OneAtATime(p, question) ==
    IF question.t # "string"
    THEN /\ last' = [Did("ask", p, 0, question) EXCEPT !.threw = TRUE]
         /\ UNCHANGED <<nAsks, inflight, calls, log>>
    ELSE IF Trim(question.s) = << >> \/ DOMAIN inflight # {}
    THEN /\ last' = Did("ask", p, 0, question)
         /\ UNCHANGED <<nAsks, inflight, calls, log>>
    ELSE /\ nAsks < MaxAsks
         /\ nAsks' = nAsks + 1
         /\ log' = Post(p, nAsks + 1, postsBeforeAwait)
         /\ calls' = Append(calls, [ex |-> nAsks + 1, url |-> ASK_URL,
                                    question |-> Trim(question.s)])
         /\ inflight' = [e \in DOMAIN inflight \cup {nAsks + 1} |->
                            IF e = nAsks + 1
                            THEN [owner |-> p, question |-> Trim(question.s)]
                            ELSE inflight[e]]
         /\ last' = Did("ask", p, nAsks + 1, question)

\* handleAsk(question) up to its first suspension.
handleAsk(p, question) ==
    IF question.t # "string"
    THEN \* question.trim() throws: the handler's promise rejects
         /\ last' = [Did("ask", p, 0, question) EXCEPT !.threw = TRUE]
         /\ UNCHANGED <<nAsks, inflight, calls, log>>
    ELSE IF Trim(question.s) = << >>
    THEN /\ last' = Did("ask", p, 0, question)
         /\ UNCHANGED <<nAsks, inflight, calls, log>>
    ELSE /\ nAsks < MaxAsks
         /\ nAsks' = nAsks + 1
         /\ log' = Post(p, nAsks + 1, postsBeforeAwait)
         /\ calls' = Append(calls, [ex |-> nAsks + 1, url |-> ASK_URL,
                                    question |-> Trim(question.s)])
         /\ inflight' = [e \in DOMAIN inflight \cup {nAsks + 1} |->
                            IF e = nAsks + 1
                            THEN [owner |-> p, question |-> Trim(question.s)]
                            ELSE inflight[e]]
         /\ last' = Did("ask", p, nAsks + 1, question)

ReceiveAsk(p, text) ==
    /\ p \in listeners
    /\ handleAsk(p, text)
    /\ UNCHANGED <<surface, currentPanel, chatCreated, chatDisposed, listeners,
                   archPanels, archCreated, archDisposed>>

OpenUrls == {JUndefined, JStr(<< >>), JStr(<<"h", "t", "t", "p", ":", "/", "/", "x">>)}

\* Mutant of ReceiveOpenArchDrift: the url is never opened.
ReceiveOpenArchDrift_NeverOpens(p, url) ==
    /\ p \in listeners
    /\ last' = Did("openArchDrift", p, 0, url)
    /\ UNCHANGED <<surface, currentPanel, chatCreated, chatDisposed, listeners, archPanels,
                   archCreated, archDisposed, nAsks, inflight, calls, log>>

\* case 'openArchDrift': a url that is absent or empty is falsy.
ReceiveOpenArchDrift(p, url) ==
    /\ p \in listeners
    /\ last' = [Did("openArchDrift", p, 0, url) EXCEPT
                   !.opened = IF url.t = "string" /\ url.s # << >> THEN url ELSE JUndefined]
    /\ UNCHANGED <<surface, currentPanel, chatCreated, chatDisposed, listeners, archPanels,
                   archCreated, archDisposed, nAsks, inflight, calls, log>>

OtherTypes == {"ping"}

\* Mutant of ReceiveOther: the switch has a default case that throws.
ReceiveOther_Throws(p, type) ==
    /\ p \in listeners
    /\ last' = [Did("other", p, 0, JStr(<<type>>)) EXCEPT !.threw = TRUE]
    /\ UNCHANGED <<surface, currentPanel, chatCreated, chatDisposed, listeners, archPanels,
                   archCreated, archDisposed, nAsks, inflight, calls, log>>

\* a message type the switch has no case for.
ReceiveOther(p, type) ==
    /\ p \in listeners
    /\ last' = Did("other", p, 0, JStr(<<type>>))
    /\ UNCHANGED <<surface, currentPanel, chatCreated, chatDisposed, listeners, archPanels,
                   archCreated, archDisposed, nAsks, inflight, calls, log>>

(***************************************************************************)
(* The awaited postJson call of exchange e settles and handleAsk resumes   *)
(* (extension.ts 154-194).  The message goes to the controller's own       *)
(* panel, this._panel, whether or not the host still shows it; what the    *)
(* host does with a message for a closed panel is outside this code.       *)
(***************************************************************************)
\* Mutant of Resume: a call that failed is issued again.
Resume_RetriesFailedCall(e, net, settled) ==
    LET x == inflight[e]
        c == Continuation(x.question, settled)
        a == createOrShowArch
        did == Did("settle", x.owner, e, [net |-> net, settled |-> settled, kind |-> c.kind])
    IN  /\ inflight' = [d \in DOMAIN inflight \ {e} |-> inflight[d]]
        /\ log' = Post(x.owner, e, c.posts)
        /\ calls' = IF settled.ok
                    THEN calls
                    ELSE Append(calls, [ex |-> e, url |-> ASK_URL, question |-> x.question])
        /\ IF c.redirect
           THEN /\ a.created <= MaxArchPanels
                /\ archPanels' = a.panels
                /\ archCreated' = IF a.created # 0 THEN a.created ELSE archCreated
                /\ last' = [did EXCEPT !.created = a.created, !.revealed = a.revealed]
           ELSE /\ last' = did
                /\ UNCHANGED <<archPanels, archCreated>>
        /\ UNCHANGED <<surface, currentPanel, chatCreated, chatDisposed, listeners,
                       archDisposed, nAsks>>

\* Mutant of Resume: nothing is done for a controller whose panel is closed.
Resume_OnlyWhileOpen(e, net, settled) ==
    LET x == inflight[e]
        k == Continuation(x.question, settled)
        c == IF x.owner \in chatDisposed
             THEN [kind |-> k.kind, redirect |-> FALSE, posts |-> << >>]
             ELSE k
        a == createOrShowArch
        did == Did("settle", x.owner, e, [net |-> net, settled |-> settled, kind |-> c.kind])
    IN  /\ inflight' = [d \in DOMAIN inflight \ {e} |-> inflight[d]]
        /\ log' = Post(x.owner, e, c.posts)
        /\ IF c.redirect
           THEN /\ a.created <= MaxArchPanels
                /\ archPanels' = a.panels
                /\ archCreated' = IF a.created # 0 THEN a.created ELSE archCreated
                /\ last' = [did EXCEPT !.created = a.created, !.revealed = a.revealed]
           ELSE /\ last' = did
                /\ UNCHANGED <<archPanels, archCreated>>
        /\ UNCHANGED <<surface, currentPanel, chatCreated, chatDisposed, listeners,
                       archDisposed, nAsks, calls>>

\* Mutant of Resume: the messages go to the registered chat panel, if any.
Resume_PostsToCurrentPanel(e, net, settled) ==
    LET x == inflight[e]
        c == Continuation(x.question, settled)
        a == createOrShowArch
        did == Did("settle", x.owner, e, [net |-> net, settled |-> settled, kind |-> c.kind])
    IN  /\ inflight' = [d \in DOMAIN inflight \ {e} |-> inflight[d]]
        /\ log' = Post(IF currentPanel # 0 THEN currentPanel ELSE x.owner, e, c.posts)
        /\ IF c.redirect
           THEN /\ a.created <= MaxArchPanels
                /\ archPanels' = a.panels
                /\ archCreated' = IF a.created # 0 THEN a.created ELSE archCreated
                /\ last' = [did EXCEPT !.created = a.created, !.revealed = a.revealed]
           ELSE /\ last' = did
                /\ UNCHANGED <<archPanels, archCreated>>
        /\ UNCHANGED <<surface, currentPanel, chatCreated, chatDisposed, listeners,
                       archDisposed, nAsks, calls>>

\* Mutant of Resume: the messages carry the question asked last, as if it
\* were kept in a field of the controller.
Resume_LatestQuestion(e, net, settled) ==
    LET x == inflight[e]
        c == Continuation(calls[Len(calls)].question, settled)
        a == createOrShowArch
        did == Did("settle", x.owner, e, [net |-> net, settled |-> settled, kind |-> c.kind])
    IN  /\ inflight' = [d \in DOMAIN inflight \ {e} |-> inflight[d]]
        /\ log' = Post(x.owner, e, c.posts)
        /\ IF c.redirect
           THEN /\ a.created <= MaxArchPanels
                /\ archPanels' = a.panels
                /\ archCreated' = IF a.created # 0 THEN a.created ELSE archCreated
                /\ last' = [did EXCEPT !.created = a.created, !.revealed = a.revealed]
           ELSE /\ last' = did
                /\ UNCHANGED <<archPanels, archCreated>>
        /\ UNCHANGED <<surface, currentPanel, chatCreated, chatDisposed, listeners,
                       archDisposed, nAsks, calls>>

Resume(e, net, settled) ==
    LET x == inflight[e]
        c == Continuation(x.question, settled)
        a == createOrShowArch
        did == Did("settle", x.owner, e, [net |-> net, settled |-> settled, kind |-> c.kind])
    IN  /\ inflight' = [d \in DOMAIN inflight \ {e} |-> inflight[d]]
        /\ log' = Post(x.owner, e, c.posts)
        /\ IF c.redirect
           THEN /\ a.created <= MaxArchPanels
                /\ archPanels' = a.panels
                /\ archCreated' = IF a.created # 0 THEN a.created ELSE archCreated
                /\ last' = [did EXCEPT !.created = a.created, !.revealed = a.revealed]
           ELSE /\ last' = did
                /\ UNCHANGED <<archPanels, archCreated>>
        /\ UNCHANGED <<surface, currentPanel, chatCreated, chatDisposed, listeners,
                       archDisposed, nAsks, calls>>

\* res.on('end') with the response's status and collected body.
ResponseEnd(e, status, body) ==
    /\ e \in DOMAIN inflight
    /\ Resume(e, [kind |-> "response", status |-> status, body |-> body],
              postJsonEnd(status, body))

\* req.on('error')
RequestError(e, message) ==
    /\ e \in DOMAIN inflight
    /\ Resume(e, [kind |-> "error", message |-> message], postJsonError(message))

Next ==
    \/ OpenChat
    \/ \E p \in 1..MaxChatPanels : CloseChat(p)
    \/ \E p \in 1..MaxArchPanels : CloseArch(p)
    \/ \E p \in 1..MaxChatPanels, text \in AskTexts : ReceiveAsk(p, text)
    \/ \E p \in 1..MaxChatPanels, url \in OpenUrls : ReceiveOpenArchDrift(p, url)
    \/ \E p \in 1..MaxChatPanels, type \in OtherTypes : ReceiveOther(p, type)
    \/ \E e \in 1..MaxAsks, status \in Statuses, body \in Bodies : ResponseEnd(e, status, body)
    \/ \E e \in 1..MaxAsks, message \in RequestErrors : RequestError(e, message)

Spec == Init /\ [][Next]_vars

(***************************************************************************)
(* The exchanges alone, for what eventually happens to them: the chat and  *)
(* visualization panels open and close, questions are asked, and each      *)
(* transport call settles with a 200 response or a request error.  Every   *)
(* call in flight is assumed to succeed or fail eventually; nothing else   *)
(* is assumed to happen.                                                   *)
(***************************************************************************)
\* The transport call of exchange e settles: the response ends or the
\* request fails (extension.ts 327-345).
Settles(e) ==
    \/ \E body \in Bodies : ResponseEnd(e, 200, body)
    \/ \E message \in RequestErrors : RequestError(e, message)

NextFair ==
    \/ OpenChat
    \/ \E p \in 1..MaxChatPanels : CloseChat(p)
    \/ \E p \in 1..MaxArchPanels : CloseArch(p)
    \/ \E p \in 1..MaxChatPanels : ReceiveAsk(p, JStr(Text_PaddedQ))
    \/ \E e \in 1..MaxAsks : Settles(e)

SpecFair ==
    /\ Init
    /\ [][NextFair]_vars
    /\ \A e \in 1..MaxAsks : WF_vars(Settles(e))

(***************************************************************************)
(* dispose() is a public method (extension.ts 197): besides the panel's    *)
(* onDidDispose, which runs it once, any holder of a controller may call   *)
(* it, also after the controller's panel was closed.  The specification    *)
(* below adds such calls to the chat panel's lifecycle and its exchanges.  *)
(***************************************************************************)
DisposeAgain(p) ==
    /\ p \in chatDisposed
    /\ dispose(p)
    /\ last' = Did("disposeAgain", p, 0, JUndefined)
    /\ UNCHANGED <<surface, chatCreated, archPanels, archCreated, archDisposed,
                   nAsks, inflight, calls, log>>

NextDispose ==
    \/ OpenChat
    \/ \E p \in 1..MaxChatPanels : CloseChat(p)
    \/ \E p \in 1..MaxChatPanels : DisposeAgain(p)
    \/ \E p \in 1..MaxChatPanels : ReceiveAsk(p, JStr(Text_PaddedQ))
    \/ \E e \in 1..MaxAsks : Settles(e)

SpecDispose == Init /\ [][NextDispose]_vars

(***************************************************************************)
(* Exchanges with different questions: the chat panel opens and closes,    *)
(* two different question texts are asked, in any order and any number of  *)
(* times up to MaxAsks, and the calls settle in any order.                 *)
(***************************************************************************)
QuestionTexts == {JStr(Text_PaddedQ), JStr(Text_Inner)}

NextQuestions ==
    \/ OpenChat
    \/ \E p \in 1..MaxChatPanels : CloseChat(p)
    \/ \E p \in 1..MaxChatPanels, text \in QuestionTexts : ReceiveAsk(p, text)
    \/ \E e \in 1..MaxAsks : Settles(e)

SpecQuestions == Init /\ [][NextQuestions]_vars

(***************************************************************************)
(* One exchange in detail: a chat panel is open, with or without a         *)
(* visualization panel, and one accepted Ask is in flight; its transport   *)
(* call then settles in every way the service and the network allow.       *)
(***************************************************************************)
InitTransport ==
    /\ currentPanel = 1
    /\ chatCreated = 1
    /\ chatDisposed = {}
    /\ listeners = {1}
    /\ \E n \in {0, 1} :
          /\ archCreated = n
          /\ archPanels = [k \in (IF n = 0 THEN {} ELSE {panelKey}) |-> n]
    /\ archDisposed = {}
    /\ nAsks = 1
    /\ \E text \in {Text_PaddedQ, Text_Inner} :
          /\ inflight = [e \in {1} |-> [owner |-> 1, question |-> Trim(text)]]
          /\ calls = <<[ex |-> 1, url |-> ASK_URL, question |-> Trim(text)]>>
          /\ last = Did("ask", 1, 1, JStr(text))
    /\ log = <<Posted(1, 1, StatusMessage)>>
    /\ surface = NoSurface

NextTransport ==
    \/ \E status \in AllStatuses, body \in AllBodies : ResponseEnd(1, status, body)
    \/ \E message \in AllRequestErrors : RequestError(1, message)

SpecTransport == InitTransport /\ [][NextTransport]_vars

(***************************************************************************)
(* The compiled variant .vscode/observability-agent/extension.js: its chat *)
(* webview script (289-356) and its handleAsk (40-80), which uses fetch,   *)
(* knows no redirect and posts answer, score and trace only.  One chat     *)
(* panel is open throughout.  Messages between the webview and the         *)
(* extension are delivered one at a time, in order.  The send button and   *)
(* the input are the only triggers of sendMessage (321-329), and a         *)
(* disabled control dispatches neither click nor keydown.                  *)
(***************************************************************************)
\* fetch resolved: response.ok, then response.json() (extension.js 51-61)
fetchEnd(status, body) ==
    IF status \notin 200..299
    THEN Reject(HttpError(status))
    ELSE LET parsed == JSONparse(body)
         IN  IF parsed.ok THEN Resolve(parsed.v) ELSE Reject(SyntaxError)

\* fetch rejected: no response
fetchError(message) == Reject(Error("TypeError", message))

\* extension.js 63-69
AnswerMessageJs(trimmedQuestion, data) ==
    [type |-> "answer",
     question |-> trimmedQuestion,
     answer |-> Coalesce(GetField(data, Key_answer), JStr(<< >>)),
     score |-> Coalesce(GetField(data, Key_score), JNull),
     trace |-> Coalesce(GetField(data, Key_trace), JNull)]

\* The part of the variant's handleAsk after the await (extension.js 58-79).
ContinuationJs(trimmedQuestion, settled) ==
    IF ~settled.ok
    THEN [kind |-> "error", posts |-> <<ErrorMessage(trimmedQuestion, settled.err)>>]
    ELSE IF settled.data.t \in {"null", "undefined"}
    THEN [kind |-> "error", posts |-> <<ErrorMessage(trimmedQuestion, TypeError)>>]
    ELSE [kind |-> "answer", posts |-> <<AnswerMessageJs(trimmedQuestion, settled.data)>>]

InitSurface ==
    /\ currentPanel = 1
    /\ chatCreated = 1
    /\ chatDisposed = {}
    /\ listeners = {1}
    /\ archPanels = NoPanels
    /\ archCreated = 0
    /\ archDisposed = {}
    /\ nAsks = 0
    /\ inflight = NoExchanges
    /\ calls = << >>
    /\ log = << >>
    /\ last = [Did("openChat", 0, 0, JUndefined) EXCEPT !.created = 1]
    /\ surface = NoSurface

\* setBusy (extension.js 289-295)
setBusy(busy) == [surface EXCEPT !.busy = busy]

\* sendMessage (extension.js 297-318) with the text of the input, run by a
\* click on the send button or by Enter in the input.
sendMessage(text) ==
    /\ ~surface.busy
    /\ IF Trim(text) = << >>
       THEN UNCHANGED surface
       ELSE /\ nAsks + Len(surface.outbox) < MaxAsks
            /\ surface' = [setBusy(TRUE) EXCEPT !.outbox = Append(@, Trim(text))]
    /\ last' = Did("send", 1, 0, JStr(text))
    /\ UNCHANGED <<currentPanel, chatCreated, chatDisposed, listeners, archPanels,
                   archCreated, archDisposed, nAsks, inflight, calls, log>>

\* The extension receives the oldest message of the webview: case 'ask'
\* (extension.js 32-38) and handleAsk up to the await (40-57).
ReceiveAskJs ==
    /\ surface.outbox # << >>
    /\ 1 \in listeners
    /\ handleAsk(1, JStr(Head(surface.outbox)))
    /\ surface' = [surface EXCEPT !.outbox = Tail(@)]
    /\ UNCHANGED <<currentPanel, chatCreated, chatDisposed, listeners,
                   archPanels, archCreated, archDisposed>>

\* The awaited fetch of exchange e settles and handleAsk resumes.
ResumeJs(e, net, settled) ==
    LET x == inflight[e]
        c == ContinuationJs(x.question, settled)
    IN  /\ inflight' = [d \in DOMAIN inflight \ {e} |-> inflight[d]]
        /\ log' = Post(x.owner, e, c.posts)
        /\ last' = Did("settle", x.owner, e,
                       [net |-> net, settled |-> settled, kind |-> c.kind])
        /\ UNCHANGED <<surface, currentPanel, chatCreated, chatDisposed, listeners,
                       archPanels, archCreated, archDisposed, nAsks, calls>>

SurfaceStatuses == {200, 301, 404}
SurfaceBodies == {Body_Answer, Body_Html, Body_Null, Body_Empty}

FetchEnd(e, status, body) ==
    /\ e \in DOMAIN inflight
    /\ ResumeJs(e, [kind |-> "response", status |-> status, body |-> body],
                fetchEnd(status, body))

FetchError(e, message) ==
    /\ e \in DOMAIN inflight
    /\ ResumeJs(e, [kind |-> "error", message |-> message], fetchError(message))

FetchSettles(e) ==
    \/ \E status \in SurfaceStatuses, body \in SurfaceBodies : FetchEnd(e, status, body)
    \/ FetchError(e, <<"fetch failed">>)

\* Mutant of onMessage: a status message re-enables the controls as well.
onMessage_StatusClearsBusy ==
    /\ surface.seen < Len(log)
    /\ LET m == log[surface.seen + 1]
       IN  /\ surface' = [setBusy(FALSE) EXCEPT !.seen = @ + 1]
           /\ last' = Did("show", m.to, m.ex, JStr(<<m.msg.type>>))
    /\ UNCHANGED <<currentPanel, chatCreated, chatDisposed, listeners, archPanels,
                   archCreated, archDisposed, nAsks, inflight, calls, log>>

\* The window's message listener (extension.js 338-356) handles the oldest
\* message of the extension not handled yet.
onMessage ==
    /\ surface.seen < Len(log)
    /\ LET m == log[surface.seen + 1]
       IN  /\ surface' = [(IF m.msg.type \in {"answer", "error"}
                           THEN setBusy(FALSE)
                           ELSE surface) EXCEPT !.seen = @ + 1]
           /\ last' = Did("show", m.to, m.ex, JStr(<<m.msg.type>>))
    /\ UNCHANGED <<currentPanel, chatCreated, chatDisposed, listeners, archPanels,
                   archCreated, archDisposed, nAsks, inflight, calls, log>>

NextSurface ==
    \/ \E text \in {Text_Blank, Text_PaddedQ} : sendMessage(text)
    \/ ReceiveAskJs
    \/ \E e \in 1..MaxAsks : FetchSettles(e)
    \/ onMessage

\* Every fetch is assumed to settle and every posted message to be
\* delivered; the user is not assumed to send anything.
SpecSurface ==
    /\ InitSurface
    /\ [][NextSurface]_vars
    /\ WF_vars(ReceiveAskJs)
    /\ WF_vars(onMessage)
    /\ \A e \in 1..MaxAsks : WF_vars(FetchSettles(e))

(***************************************************************************)
(* Properties.  The vocabulary below describes inputs and the log without  *)
(* using the operators that model the handlers.                            *)
(***************************************************************************)
\* s is empty or consists of whitespace only.
IsBlank(s) == \A k \in 1..Len(s) : s[k] \in {" ", "\t", "\n"}

\* the positions of the log holding messages of exchange e
MessagesOf(l, e) == {i \in DOMAIN l : l[i].ex = e}
TypesOf(l, e, types) == {i \in DOMAIN l : l[i].ex = e /\ l[i].msg.type \in types}

\* the last handler run was the resumption of a settled transport call
Settled == last.op = "settle"
\* ... in the step being taken
SettledStep == last'.op = "settle"

\* An exchange that has left the in-flight set posts nothing any more.
DoneExchangesAreQuiet ==
    \A e \in (1..nAsks) \ DOMAIN inflight :
        /\ Len(log') >= Len(log)
        /\ \A i \in (Len(log) + 1)..Len(log') : log'[i].ex # e

\* C1: an inbound ask whose text is empty or whitespace only, in any state,
\* posts no message, issues no transport call and leaves the in-flight
\* exchanges, the panels and both registries as they were.
C1_BlankAskChangesNothing ==
    [][(last'.op = "ask" /\ last'.arg.t = "string" /\ IsBlank(last'.arg.s))
         => UNCHANGED <<log, calls, inflight, nAsks, currentPanel, chatCreated,
                        chatDisposed, listeners, archPanels, archCreated,
                        archDisposed>>]_vars

\* A whitespace-only ask was handled while another exchange was in flight.
C1_Witness ==
    /\ last.op = "ask" /\ last.arg.t = "string"
    /\ last.arg.s # << >> /\ IsBlank(last.arg.s)
    /\ DOMAIN inflight # {}
    /\ ~last.threw

\* C2: every accepted ask has exactly one Status("Thinking...") message in
\* the log, every Answer or Error message of an exchange comes after the
\* Status of that exchange, and every message belongs to an accepted ask.
C2_OneStatusBeforeTerminal ==
    /\ \A i \in DOMAIN log : log[i].ex \in 1..nAsks
    /\ \A e \in 1..nAsks :
          /\ Cardinality(TypesOf(log, e, {"status"})) = 1
          /\ \A i \in TypesOf(log, e, {"status"}) :
                /\ log[i].msg.message = <<"Thinking...">>
                /\ \A j \in TypesOf(log, e, {"answer", "error"}) : i < j

\* Two exchanges overlapped and both reached a terminal message, the second
\* one first.
C2_Witness ==
    \E i, j \in DOMAIN log :
        /\ i < j
        /\ log[i].ex = 2 /\ log[i].msg.type \in {"answer", "error"}
        /\ log[j].ex = 1 /\ log[j].msg.type \in {"answer", "error"}

\* C4: at most one live chat panel and at most one live visualization panel.
C4_OneLivePanelPerKind ==
    /\ Cardinality(ChatLive) <= 1
    /\ Cardinality(ArchLive) <= 1

\* Both kinds have a live panel that replaced a closed one.
C4_Witness ==
    /\ Cardinality(ChatLive) = 1 /\ chatDisposed # {}
    /\ Cardinality(ArchLive) = 1 /\ archDisposed # {}

\* C5: createOrShow for a kind whose panel is registered creates no panel,
\* reveals the registered one and leaves the registry entry as it is (chat
\* kind by the open-chat command, visualization kind by a Redirect).
C5_CreateOrShowReveals ==
    [][/\ (last'.op = "openChat" /\ currentPanel # 0)
            => /\ currentPanel' = currentPanel
               /\ chatCreated' = chatCreated
               /\ chatDisposed' = chatDisposed
               /\ last'.revealed = currentPanel
               /\ last'.created = 0
       /\ (SettledStep /\ last'.arg.kind = "redirect" /\ panelKey \in DOMAIN archPanels)
            => /\ archPanels' = archPanels
               /\ archCreated' = archCreated
               /\ archDisposed' = archDisposed
               /\ last'.revealed = archPanels[panelKey]
               /\ last'.created = 0]_vars

\* The open-chat command ran with the chat panel open and revealed it, a
\* visualization panel being registered as well.
C5_Witness ==
    /\ last.op = "openChat"
    /\ last.revealed # 0 /\ last.revealed = currentPanel
    /\ ChatLive = {currentPanel}
    /\ panelKey \in DOMAIN archPanels

\* C6: a host close removes the registry entry of the closed panel, and the
\* next createOrShow of that kind constructs and registers a panel that is
\* none of the panels made before.
C6_CloseThenFreshPanel ==
    [][/\ last'.op = "closeChat"
            => currentPanel' = 0 /\ last'.panel \in chatDisposed'
       /\ last'.op = "closeArch"
            => panelKey \notin DOMAIN archPanels' /\ last'.panel \in archDisposed'
       /\ (last'.op = "openChat" /\ currentPanel = 0)
            => /\ currentPanel' = last'.created
               /\ currentPanel' \notin (1..chatCreated) \cup chatDisposed'
               /\ currentPanel' \in 1..chatCreated'
       /\ (SettledStep /\ last'.arg.kind = "redirect" /\ panelKey \notin DOMAIN archPanels)
            => /\ panelKey \in DOMAIN archPanels'
               /\ archPanels'[panelKey] = last'.created
               /\ archPanels'[panelKey] \notin (1..archCreated) \cup archDisposed'
               /\ archPanels'[panelKey] \in 1..archCreated']_vars

\* A chat panel was created after an earlier one had been closed.
C6_Witness ==
    /\ last.op = "openChat"
    /\ last.created # 0 /\ last.created = currentPanel
    /\ chatDisposed # {}
    /\ currentPanel \notin chatDisposed

\* C7: the resumption of an exchange classified as Redirect posts nothing and
\* leaves the visualization panel registered and live (created or revealed);
\* a finished exchange posts nothing later, so the Status is all it posts.
C7_RedirectPostsNothing ==
    [][/\ (SettledStep /\ last'.arg.kind = "redirect")
            => /\ log' = log
               /\ panelKey \in DOMAIN archPanels'
               /\ archPanels'[panelKey] \in (1..archCreated') \ archDisposed'
               /\ archPanels'[panelKey] \in {last'.created, last'.revealed}
       /\ DoneExchangesAreQuiet]_vars

\* A Redirect created the visualization panel; the exchange has its Status
\* and nothing else in the log.
C7_Witness ==
    /\ Settled /\ last.arg.kind = "redirect"
    /\ last.created # 0 /\ archPanels[panelKey] = last.created
    /\ Cardinality(MessagesOf(log, last.ex)) = 1

\* C8: when the transport call of an exchange fails, its resumption posts
\* one message, an Error for that exchange whose text is the fixed prefix
\* followed by the cause text; it posts no Answer, touches no visualization
\* panel and leaves the controller listening; the exchange posts nothing
\* later.
C8_FailureBecomesOneError ==
    [][/\ (SettledStep /\ ~last'.arg.settled.ok)
            => /\ Len(log') = Len(log) + 1
               /\ SubSeq(log', 1, Len(log)) = log
               /\ log'[Len(log')].ex = last'.ex
               /\ log'[Len(log')].to = inflight[last'.ex].owner
               /\ log'[Len(log')].msg.type = "error"
               /\ log'[Len(log')].msg.question = inflight[last'.ex].question
               /\ log'[Len(log')].msg.message =
                      <<"Could not reach the observability service at http://localhost:8000/ask. Is it running?\n\n">>
                          \o last'.arg.settled.err.message
               /\ last'.ex \notin DOMAIN inflight'
               /\ UNCHANGED <<archPanels, archCreated, archDisposed, currentPanel,
                              chatDisposed, listeners>>
       /\ DoneExchangesAreQuiet]_vars

\* After the Error of a failed exchange the same controller accepted another
\* ask.
C8_Witness ==
    \E i, j \in DOMAIN log :
        /\ i < j
        /\ log[i].msg.type = "error" /\ log[i].ex = 1
        /\ log[j].msg.type = "status" /\ log[j].ex = 2
        /\ log[j].to = log[i].to

(***************************************************************************)
(* Properties of one exchange (SpecTransport).                             *)
(***************************************************************************)
\* letters a and b are equal up to case
SameLetter(a, b) ==
    a = b \/ \E n \in 1..26 : {a, b} = {UpperCase[n], LowerCase[n]}

ContainsIgnoringCase(s, sub) ==
    \E k \in 1..(Len(s) - Len(sub) + 1) :
        \A j \in 1..Len(sub) : SameLetter(s[k + j - 1], sub[j])

\* the parsed response d has mode 'arch_drift'
HasModeArchDrift(d) ==
    /\ d.t = "object"
    /\ Key_mode \in DOMAIN d.f
    /\ d.f[Key_mode].t = "string"
    /\ d.f[Key_mode].s = <<"a", "r", "c", "h", "_", "d", "r", "i", "f", "t">>

\* the parsed response d has a string answer containing the link text
HasLinkText(d) ==
    /\ d.t = "object"
    /\ Key_answer \in DOMAIN d.f
    /\ d.f[Key_answer].t = "string"
    /\ ContainsIgnoringCase(d.f[Key_answer].s,
                            <<"a", "r", "c", "h", "d", "r", "i", "f", "t", " ", "u", "i">>)

\* C3: for a parsed response other than null, the outcome is a Redirect when
\* mode is 'arch_drift', whatever the answer; otherwise a Redirect when the
\* answer is a string containing 'archdrift ui' in any letter case; otherwise
\* an Answer.  A Redirect posts nothing, an Answer posts an answer message.
C3_ClassificationPrecedence ==
    (Settled /\ last.arg.settled.ok /\ last.arg.settled.data.t # "null")
        => LET d == last.arg.settled.data
               expected == IF HasModeArchDrift(d) THEN "redirect"
                           ELSE IF HasLinkText(d) THEN "redirect"
                           ELSE "answer"
           IN  /\ last.arg.kind = expected
               /\ expected = "redirect" => TypesOf(log, last.ex, {"answer", "error"}) = {}
               /\ expected = "answer" => /\ TypesOf(log, last.ex, {"error"}) = {}
                                         /\ Cardinality(TypesOf(log, last.ex, {"answer"})) = 1

\* A response with another mode and an upper-case link text was classified
\* as a Redirect.
C3_Witness ==
    /\ Settled /\ last.arg.settled.ok
    /\ last.arg.net.body = Body_LinkOtherMode
    /\ last.arg.kind = "redirect"
    /\ ~HasModeArchDrift(last.arg.settled.data)

\* C9: a response whose status is outside 200-299 ends the exchange in an
\* Error message, never in an Answer or a Redirect.
C9_NonSuccessStatusFails ==
    (Settled /\ last.arg.net.kind = "response" /\ last.arg.net.status \notin 200..299)
        => /\ last.arg.kind = "error"
           /\ Cardinality(TypesOf(log, last.ex, {"error"})) = 1
           /\ TypesOf(log, last.ex, {"answer"}) = {}

\* C10: a response with status >= 400 ends the exchange in an Error message
\* whose cause is the HTTP-status error carrying the status code, whatever
\* the body is: never an Answer, a Redirect or a parse error.
C10_ErrorStatusBeforeParse ==
    (Settled /\ last.arg.net.kind = "response" /\ last.arg.net.status >= 400)
        => /\ last.arg.kind = "error"
           /\ ~last.arg.settled.ok
           /\ last.arg.settled.err.message =
                  <<"HTTP error! status: ", ToString(last.arg.net.status)>>
           /\ TypesOf(log, last.ex, {"answer"}) = {}
           /\ \A i \in TypesOf(log, last.ex, {"error"}) :
                  log[i].msg.message =
                      <<UNREACHABLE_PREFIX, "HTTP error! status: ",
                        ToString(last.arg.net.status)>>
           /\ Cardinality(TypesOf(log, last.ex, {"error"})) = 1
           /\ archPanels = [k \in (IF archCreated = 0 THEN {} ELSE {panelKey}) |-> archCreated]

\* A 500 response with the well-formed body {"mode":"arch_drift"} ended in
\* the HTTP-status Error.
C10_Witness ==
    /\ Settled /\ last.arg.net.kind = "response"
    /\ last.arg.net.status = 500
    /\ last.arg.net.body = Body_ModeOnly
    /\ last.arg.kind = "error"

\* Bodies that are not JSON documents, by inspection of their text: an
\* object cut short, a trailing comma, plain words, markup.
MalformedBodies == {Body_Truncated, Body_TrailingComma, Body_PlainText, Body_Html}

\* C11 as stated: a 2xx response whose body is malformed, not JSON or empty
\* ends the exchange in an Error message carrying the parse error.
C11_UnparsableBodyFails ==
    (Settled /\ last.arg.net.kind = "response" /\ last.arg.net.status \in 200..299
       /\ last.arg.net.body \in MalformedBodies \cup {<< >>})
        => /\ last.arg.kind = "error"
           /\ ~last.arg.settled.ok
           /\ last.arg.settled.err.name = "SyntaxError"

\* C11 amended: a 2xx response whose body is not empty and is not a JSON
\* document ends the exchange in one Error message whose cause is the parse
\* error, never in an Answer or a Redirect; an empty body is taken as the
\* empty object and ends in an Answer with the empty text.
C11_NonEmptyUnparsableBodyFails ==
    (Settled /\ last.arg.net.kind = "response" /\ last.arg.net.status \in 200..299)
        => /\ last.arg.net.body \in MalformedBodies
              => /\ last.arg.kind = "error"
                 /\ ~last.arg.settled.ok
                 /\ last.arg.settled.err.name = "SyntaxError"
                 /\ TypesOf(log, last.ex, {"answer"}) = {}
                 /\ Cardinality(TypesOf(log, last.ex, {"error"})) = 1
                 /\ \A i \in TypesOf(log, last.ex, {"error"}) :
                        /\ Head(log[i].msg.message) = UNREACHABLE_PREFIX
                        /\ Tail(log[i].msg.message) = last.arg.settled.err.message
                 /\ archCreated \in {0, 1} /\ last.created = 0 /\ last.revealed = 0
           /\ last.arg.net.body = << >>
              => /\ last.arg.kind = "answer"
                 /\ TypesOf(log, last.ex, {"error"}) = {}
                 /\ \A i \in TypesOf(log, last.ex, {"answer"}) :
                        log[i].msg.answer = [t |-> "string", s |-> << >>]
                 /\ Cardinality(TypesOf(log, last.ex, {"answer"})) = 1

\* A 200 response with a body cut short ended in an Error.
C11_Witness ==
    /\ Settled /\ last.arg.net.kind = "response"
    /\ last.arg.net.status = 200
    /\ last.arg.net.body = Body_Truncated
    /\ last.arg.kind = "error"

\* C12: no failure escapes the controller: whatever message arrives (any
\* type; for ask a text that is a string or absent) and however a transport
\* call ends, the handler finishes without an uncaught exception or a
\* rejected promise.
C12_NoFailureEscapes ==
    ~last.threw

\* C13: every successfully parsed response classifies: whatever JSON value
\* the transport call returned (object, null, array, number, string), the
\* exchange ends as an Answer or a Redirect and never in an Error message.
C13_ParsedResponseClassifies ==
    (Settled /\ last.arg.net.kind = "response" /\ last.arg.settled.ok)
        => /\ last.arg.kind \in {"answer", "redirect"}
           /\ TypesOf(log, last.ex, {"error"}) = {}

\* the last handler run was an ask message with a question that is not blank
AskedStep == last'.op = "ask" /\ last'.arg.t = "string" /\ ~IsBlank(last'.arg.s)

\* C14: an Ask that arrives while another exchange is in flight is accepted
\* at once: a new exchange joins those in flight, which stay as they are,
\* its own status message is posted and its own transport call is issued;
\* and a call that settles ends its own exchange only.
C14_AskWhileBusyIsAccepted ==
    [][/\ (AskedStep /\ DOMAIN inflight # {})
           => /\ last'.ex \notin DOMAIN inflight
              /\ \A i \in DOMAIN calls : calls[i].ex # last'.ex
              /\ DOMAIN inflight' = DOMAIN inflight \cup {last'.ex}
              /\ \A d \in DOMAIN inflight : inflight'[d] = inflight[d]
              /\ inflight'[last'.ex].owner = last'.panel
              /\ log' = Append(log, [to |-> last'.panel, ex |-> last'.ex,
                                     msg |-> [type |-> "status",
                                              message |-> <<"Thinking...">>]])
              /\ Len(calls') = Len(calls) + 1
              /\ SubSeq(calls', 1, Len(calls)) = calls
              /\ calls'[Len(calls')].ex = last'.ex
       /\ SettledStep
           => /\ last'.ex \in DOMAIN inflight
              /\ DOMAIN inflight' = DOMAIN inflight \ {last'.ex}
              /\ \A i \in DOMAIN log' \ DOMAIN log : log'[i].ex = last'.ex
      ]_vars

\* The second Ask was accepted while the first was in flight: two exchanges
\* are in flight, each with its status posted and its call issued.
C14_Witness ==
    /\ last.op = "ask" /\ last.ex = 2
    /\ {1, 2} \subseteq DOMAIN inflight
    /\ TypesOf(log, 1, {"status"}) # {} /\ TypesOf(log, 2, {"status"}) # {}
    /\ TypesOf(log, 1, {"answer", "error"}) = {}
    /\ Len(calls) = 2

\* C15: terminal messages appear in the order in which the transport calls
\* complete: the call that settles puts its Answer or Error at the end of
\* what was posted so far, after the terminal message of any exchange that
\* completed before it, whatever the order of submission.
C15_TerminalsInCompletionOrder ==
    [][SettledStep
         => /\ Len(log') >= Len(log)
            /\ SubSeq(log', 1, Len(log)) = log
            /\ last'.arg.kind # "redirect"
                 => /\ Len(log') = Len(log) + 1
                    /\ log'[Len(log')].ex = last'.ex
                    /\ log'[Len(log')].msg.type \in {"answer", "error"}
      ]_vars

\* Exchange 2 completed first and exchange 1 last: the terminal message of
\* 2 precedes that of 1, which is the last message posted.
C15_Witness ==
    /\ Settled /\ last.ex = 1 /\ last.arg.kind # "redirect"
    /\ log # << >>
    /\ log[Len(log)].ex = 1
    /\ log[Len(log)].msg.type \in {"answer", "error"}
    /\ \E i \in TypesOf(log, 2, {"answer", "error"}) : i < Len(log)

\* C16: no event cancels an exchange in flight: it stays in flight, as it
\* is, through every step except the settling of its own transport call.
C16_OnlyOwnSettleEnds ==
    [][\A e \in DOMAIN inflight :
          IF e \in DOMAIN inflight'
          THEN inflight'[e] = inflight[e]
          ELSE SettledStep /\ last'.ex = e
      ]_vars

\* The chat panel that asked was closed and its exchange is still in flight.
C16_Witness ==
    /\ last.op = "closeChat"
    /\ \E e \in DOMAIN inflight : inflight[e].owner = last.panel

\* C17: a registry entry, when present, refers to a live panel: the chat
\* registry never holds a chat panel that was closed, the visualization
\* registry never holds a visualization panel that was closed, whatever the
\* interleaving of createOrShow and close notifications.
C17_RegisteredPanelIsLive ==
    /\ currentPanel # 0
         => currentPanel \in 1..chatCreated /\ currentPanel \notin chatDisposed
    /\ \A k \in DOMAIN archPanels :
         archPanels[k] \in 1..archCreated /\ archPanels[k] \notin archDisposed

\* After a panel of each kind was closed, createOrShow registered a fresh
\* panel of each kind.
C17_Witness ==
    /\ chatDisposed # {} /\ currentPanel # 0
    /\ archDisposed # {} /\ panelKey \in DOMAIN archPanels
    /\ last.op \in {"openChat", "settle"} /\ last.created # 0

\* the url of an openArchDrift message is present: a string that is not empty
UrlPresent(url) == url.t = "string" /\ Len(url.s) > 0

\* C18: an openArchDrift message, in any state, asks the host to open its
\* url externally and opens nothing when the url is absent (undefined or
\* empty); it posts no message, issues no transport call and leaves the
\* exchanges in flight and both registries as they are.
C18_OpenArchDriftOnlyOpensUrl ==
    [][last'.op = "openArchDrift"
         => /\ last'.opened = IF UrlPresent(last'.arg) THEN last'.arg ELSE [t |-> "undefined"]
            /\ ~last'.threw
            /\ last'.created = 0 /\ last'.revealed = 0
            /\ UNCHANGED <<log, calls, nAsks, inflight, currentPanel, archPanels,
                           chatCreated, chatDisposed, archCreated, archDisposed,
                           listeners>>
      ]_vars

\* A url was opened while an exchange was in flight and a visualization
\* panel was registered.
C18_Witness ==
    /\ last.op = "openArchDrift"
    /\ UrlPresent(last.arg) /\ last.opened = last.arg
    /\ DOMAIN inflight # {}
    /\ panelKey \in DOMAIN archPanels

\* C19: a message whose type is neither 'ask' nor 'openArchDrift' is
\* ignored: no error is raised, nothing is posted or opened, no transport
\* call is issued and no controller or registry state changes.
C19_UnknownTypeIgnored ==
    [][last'.op = "other"
         => /\ ~last'.threw
            /\ last'.opened = [t |-> "undefined"]
            /\ last'.created = 0 /\ last'.revealed = 0
            /\ UNCHANGED <<log, calls, nAsks, inflight, currentPanel, archPanels,
                           chatCreated, chatDisposed, archCreated, archDisposed,
                           listeners>>
      ]_vars

\* A message of an unknown type arrived while an exchange was in flight.
C19_Witness ==
    /\ last.op = "other"
    /\ last.arg.s \notin {<<"ask">>, <<"openArchDrift">>}
    /\ DOMAIN inflight # {}

\* C20: each accepted Ask causes exactly one transport call: the calls
\* issued are as many as the Asks accepted (as the status messages posted),
\* one per exchange, also after calls have failed.
C20_OneCallPerAcceptedAsk ==
    /\ Len(calls) = nAsks
    /\ Len(calls) = Cardinality({i \in DOMAIN log : log[i].msg.type = "status"})
    /\ \A e \in 1..nAsks : Cardinality({i \in DOMAIN calls : calls[i].ex = e}) = 1
    /\ \A e \in DOMAIN inflight : e \in 1..nAsks

\* Two Asks were accepted, both calls settled, the last one failing, and two
\* calls were issued in all.
C20_Witness ==
    /\ Settled /\ ~last.arg.settled.ok
    /\ nAsks = 2 /\ DOMAIN inflight = {}
    /\ Len(calls) = 2
    /\ TypesOf(log, last.ex, {"error"}) # {}

\* the response d is an object that has the field k
Present(d, k) == d.t = "object" /\ k \in DOMAIN d.f

\* the answer message of the exchange that settled last, with its five
\* response fields by name
LastAnswerFields ==
    LET m == log[CHOOSE i \in TypesOf(log, last.ex, {"answer"}) : TRUE].msg
    IN  [k \in {Key_answer, Key_score, Key_trace, Key_mode, Key_drift_data} |->
            CASE k = Key_answer -> m.answer
              [] k = Key_score -> m.score
              [] k = Key_trace -> m.trace
              [] k = Key_mode -> m.mode
              [] OTHER -> m.drift_data]

AnsweredResponse ==
    /\ Settled /\ last.arg.kind = "answer"
    /\ TypesOf(log, last.ex, {"answer"}) # {}

\* C21 as stated: the answer message carries each of answer, score, trace,
\* mode and drift_data unchanged when the response has it, the empty string
\* for an absent answer and null for any other absent field.
C21_AnswerFieldsCarried ==
    AnsweredResponse
        => \A k \in DOMAIN LastAnswerFields :
              LastAnswerFields[k] =
                  IF Present(last.arg.settled.data, k)
                  THEN last.arg.settled.data.f[k]
                  ELSE IF k = Key_answer THEN [t |-> "string", s |-> << >>]
                  ELSE [t |-> "null"]

\* C21 amended: as stated, except that an answer that is present with the
\* value null is reported as the empty string, like an absent one; every
\* other present value, of any type, is carried unchanged.
C21_AnswerFieldsCarriedOrDefaulted ==
    AnsweredResponse
        => \A k \in DOMAIN LastAnswerFields :
              LastAnswerFields[k] =
                  IF /\ Present(last.arg.settled.data, k)
                     /\ ~(k = Key_answer /\ last.arg.settled.data.f[k] = [t |-> "null"])
                  THEN last.arg.settled.data.f[k]
                  ELSE IF k = Key_answer THEN [t |-> "string", s |-> << >>]
                  ELSE [t |-> "null"]

\* The response {"answer":"slow db","score":0.95} was answered: the message
\* has that answer and score, and null for trace, mode and drift_data.
C21_Witness ==
    /\ AnsweredResponse
    /\ last.arg.net.kind = "response" /\ last.arg.net.body = Body_Answer
    /\ LastAnswerFields[Key_answer] = [t |-> "string", s |-> <<"s", "l", "o", "w", " ", "d", "b">>]
    /\ LastAnswerFields[Key_score] = [t |-> "number", n |-> <<"0", ".", "9", "5">>]
    /\ LastAnswerFields[Key_trace] = [t |-> "null"]
    /\ LastAnswerFields[Key_mode] = [t |-> "null"]
    /\ LastAnswerFields[Key_drift_data] = [t |-> "null"]

\* C22: every accepted Ask reaches exactly one terminal outcome: the step
\* that settles its call posts one Answer, or posts one Error, or shows the
\* visualization panel and posts nothing; an exchange that has ended never
\* is in flight again and gets no further message; and, its call being
\* assumed to succeed or fail eventually, every exchange in flight ends.
C22_ExactlyOneTerminalOutcome ==
    /\ [][/\ SettledStep
               => /\ last'.ex \in DOMAIN inflight /\ last'.ex \notin DOMAIN inflight'
                  /\ TypesOf(log, last'.ex, {"answer", "error"}) = {}
                  /\ last'.arg.kind \in {"answer", "error", "redirect"}
                  /\ last'.arg.kind = "answer"
                       => /\ Cardinality(TypesOf(log', last'.ex, {"answer"})) = 1
                          /\ TypesOf(log', last'.ex, {"error"}) = {}
                          /\ last'.created = 0 /\ last'.revealed = 0
                          /\ archPanels' = archPanels
                  /\ last'.arg.kind = "error"
                       => /\ Cardinality(TypesOf(log', last'.ex, {"error"})) = 1
                          /\ TypesOf(log', last'.ex, {"answer"}) = {}
                          /\ last'.created = 0 /\ last'.revealed = 0
                          /\ archPanels' = archPanels
                  /\ last'.arg.kind = "redirect"
                       => /\ TypesOf(log', last'.ex, {"answer", "error"}) = {}
                          /\ (last'.created # 0) # (last'.revealed # 0)
                          /\ panelKey \in DOMAIN archPanels'
          /\ \A e \in 1..nAsks :
                e \notin DOMAIN inflight
                    => /\ e \notin DOMAIN inflight'
                       /\ MessagesOf(log', e) = MessagesOf(log, e)
         ]_vars
    /\ \A e \in 1..MaxAsks : (e \in DOMAIN inflight) ~> (e \notin DOMAIN inflight)

\* Two exchanges have ended, one in an Answer or Error and one
\* in a Redirect, and none is in flight.
C22_Witness ==
    /\ Settled /\ nAsks = 2 /\ DOMAIN inflight = {}
    /\ \E e \in 1..2 : TypesOf(log, e, {"answer", "error"}) = {}
    /\ \E e \in 1..2 : Cardinality(TypesOf(log, e, {"answer", "error"})) = 1

\* C23: the Status message of an accepted Ask is posted before its transport
\* call is outstanding: whenever a call has been issued, the status of its
\* exchange is already in the log, ahead of any terminal message of that
\* exchange; and status messages stand in the log in the order in which the
\* Asks were submitted (the order of the calls), whatever the order of the
\* terminal messages.
C23_StatusInSubmissionOrder ==
    /\ \A c \in DOMAIN calls :
          /\ Cardinality(TypesOf(log, calls[c].ex, {"status"})) = 1
          /\ \A i \in TypesOf(log, calls[c].ex, {"status"}) :
                \A j \in TypesOf(log, calls[c].ex, {"answer", "error"}) : i < j
    /\ \A e \in DOMAIN inflight : TypesOf(log, e, {"status"}) # {}
    /\ \A c, d \in DOMAIN calls :
          c < d => \A i \in TypesOf(log, calls[c].ex, {"status"}) :
                      \A j \in TypesOf(log, calls[d].ex, {"status"}) : i < j

\* Two Asks were submitted and the second completed first: the statuses
\* stand in submission order, the terminal messages in the opposite order.
C23_Witness ==
    /\ Len(calls) = 2
    /\ \E i \in TypesOf(log, calls[1].ex, {"status"}) :
       \E j \in TypesOf(log, calls[2].ex, {"status"}) :
       \E k \in TypesOf(log, calls[2].ex, {"answer", "error"}) :
       \E l \in TypesOf(log, calls[1].ex, {"answer", "error"}) :
           i < j /\ j < k /\ k < l

\* C24: dispose() removes the chat registry entry only when the entry
\* refers to the controller being disposed: after dispose() was called on a
\* controller whose panel was already closed, a newer chat panel that is
\* live is still registered, and there never are two live chat panels.
C24_StaleDisposeKeepsNewerPanel ==
    /\ (last.op = "disposeAgain" /\ ChatLive # {}) => currentPanel \in ChatLive
    /\ Cardinality(ChatLive) <= 1

\* t is s without the whitespace at its two ends
IsTrimOf(t, s) ==
    \E i \in 1..(Len(s) + 1) : \E j \in (i - 1)..Len(s) :
        /\ t = SubSeq(s, i, j)
        /\ \A k \in (1..(i - 1)) \cup ((j + 1)..Len(s)) : s[k] \in {" ", "\t", "\n"}
        /\ t # << >> => t[1] \notin {" ", "\t", "\n"} /\ t[Len(t)] \notin {" ", "\t", "\n"}

\* C25: the request of an exchange carries the trimmed text of the Ask that
\* started it, and every Answer or Error message carries the question of
\* the request of its own exchange, also when exchanges with different
\* questions overlap and complete out of submission order.
C25_OwnQuestionCarried ==
    [][/\ AskedStep
            => /\ Len(calls') = Len(calls) + 1
               /\ calls'[Len(calls')].ex = last'.ex
               /\ IsTrimOf(calls'[Len(calls')].question, last'.arg.s)
       /\ \A i \in DOMAIN log' :
             log'[i].msg.type \in {"answer", "error"}
                 => \E c \in DOMAIN calls' :
                       /\ calls'[c].ex = log'[i].ex
                       /\ calls'[c].question = log'[i].msg.question
      ]_vars

\* Two exchanges with different questions overlapped and the second
\* completed first; each terminal message carries its own question.
C25_Witness ==
    /\ Settled /\ last.ex = 1
    /\ Len(calls) >= 2
    /\ calls[1].question = <<"q">> /\ calls[2].question = <<"a", " ", "b">>
    /\ \E i \in TypesOf(log, 2, {"answer", "error"}) :
       \E j \in TypesOf(log, 1, {"answer", "error"}) :
           /\ i < j
           /\ log[i].msg.question = <<"a", " ", "b">>
           /\ log[j].msg.question = <<"q">>

\* C26: the messages of an exchange are posted only to the panel whose
\* controller received the Ask: the status goes to the panel that received
\* it, every later message of the exchange goes to that same panel, never
\* to a chat panel opened since; and the completion of an exchange whose
\* panel was closed leaves that panel closed, unregistered and without a
\* listener.
C26_PostedToOwnPanelOnly ==
    /\ (last.op = "ask" /\ last.ex # 0)
          => /\ log # << >>
             /\ log[Len(log)].ex = last.ex
             /\ log[Len(log)].to = last.panel
    /\ \A i, j \in DOMAIN log : log[i].ex = log[j].ex => log[i].to = log[j].to
    /\ \A i \in DOMAIN log : log[i].to \in 1..chatCreated
    /\ Settled
          => /\ \A i \in MessagesOf(log, last.ex) : log[i].to = last.panel
             /\ last.panel \in chatDisposed
                   => currentPanel # last.panel /\ last.panel \notin listeners

\* An exchange completed with an Answer or Error after its chat panel was
\* closed and a new one opened: the message went to the closed panel and
\* the new panel has received nothing.
C26_Witness ==
    /\ Settled /\ last.arg.kind # "redirect"
    /\ last.panel \in chatDisposed
    /\ currentPanel \in ChatLive
    /\ \E i \in TypesOf(log, last.ex, {"answer", "error"}) : log[i].to = last.panel
    /\ \A i \in DOMAIN log : log[i].to # currentPanel

\* C27: a Redirect takes effect after its chat panel was closed: when the
\* call of an exchange whose panel is closed ends with the 200 response
\* {"mode":"arch_drift"}, the visualization panel is created or revealed
\* and is registered and live afterwards, and nothing is posted.
C27_RedirectAfterChatClosed ==
    (/\ Settled /\ last.panel \in chatDisposed
     /\ last.arg.net.kind = "response"
     /\ last.arg.net.status = 200 /\ last.arg.net.body = Body_ModeOnly)
        => /\ last.arg.kind = "redirect"
           /\ (last.created # 0) # (last.revealed # 0)
           /\ panelKey \in DOMAIN archPanels
           /\ archPanels[panelKey] \in ArchLive
           /\ archPanels[panelKey] \in {last.created, last.revealed}
           /\ TypesOf(log, last.ex, {"answer", "error"}) = {}

\* The chat panel was closed with its exchange in flight and no
\* visualization panel open; the redirect then created one.
C27_Witness ==
    /\ Settled /\ last.arg.kind = "redirect"
    /\ last.panel \in chatDisposed
    /\ ChatLive = {}
    /\ last.created # 0
    /\ archPanels[panelKey] = last.created

\* C28: a controller whose chat panel was disposed starts nothing new: it
\* has no message listener any more, so the last ask, openArchDrift or
\* other message handled was never one delivered to a disposed controller,
\* and every exchange was started by a controller that was live then: an
\* exchange in flight owned by a disposed controller has its status in the
\* log already.
C28_DisposedControllerIsDeaf ==
    /\ listeners \cap chatDisposed = {}
    /\ last.op \in {"ask", "openArchDrift", "other"} => last.panel \notin chatDisposed
    /\ last.op \in {"ask", "openArchDrift", "other"} => last.panel \in ChatLive
    /\ \A e \in DOMAIN inflight :
          inflight[e].owner \in chatDisposed
              => \E i \in TypesOf(log, e, {"status"}) : log[i].to = inflight[e].owner

\* A chat panel was closed, a new one opened, and the new one's controller
\* handled an Ask; the closed one's controller has no listener.
C28_Witness ==
    /\ last.op = "ask" /\ last.ex # 0
    /\ chatDisposed # {}
    /\ last.panel \in listeners
    /\ \A p \in chatDisposed : p \notin listeners /\ p # last.panel

\* C29: the two panel kinds are independent: opening, revealing or closing
\* the chat panel leaves the visualization registry and panels as they are;
\* closing the visualization panel leaves the chat registry, the chat
\* panels and the exchanges in flight as they are; and creating or
\* revealing the visualization panel, which happens when a call settles,
\* leaves the chat registry and panels and every other exchange in flight
\* as they are.
C29_PanelKindsIndependent ==
    [][/\ last'.op \in {"openChat", "closeChat"}
            => UNCHANGED <<archPanels, archCreated, archDisposed>>
       /\ last'.op = "closeArch"
            => UNCHANGED <<currentPanel, chatCreated, chatDisposed, listeners,
                           inflight, calls, log>>
       /\ (SettledStep /\ (last'.created # 0 \/ last'.revealed # 0))
            => /\ UNCHANGED <<currentPanel, chatCreated, chatDisposed, listeners>>
               /\ \A e \in DOMAIN inflight \ {last'.ex} :
                     e \in DOMAIN inflight' /\ inflight'[e] = inflight[e]
      ]_vars

\* The visualization panel was closed while a chat panel was registered
\* and an exchange was in flight.
C29_Witness ==
    /\ last.op = "closeArch"
    /\ currentPanel \in ChatLive
    /\ DOMAIN inflight # {}
    /\ panelKey \notin DOMAIN archPanels

\* the step sends an ask message from the webview
SentStep == Len(surface'.outbox) > Len(surface.outbox)

\* the step is the webview's handling of a message of the given types
ShownStep(types) ==
    /\ surface'.seen = surface.seen + 1
    /\ surface'.seen \in DOMAIN log
    /\ log[surface'.seen].msg.type \in types

\* C30: in the variant extension.js the webview is busy from the sending of
\* a question until it handles an answer or error message: only sending
\* sets busy, only an answer or error clears it, a status leaves it set,
\* and nothing is sent while busy, so at most one Ask is under way; every
\* Ask accepted ends in exactly one answer or error once its fetch
\* settles; and a busy webview is eventually re-enabled.
C30_BusyUntilAnswerOrError ==
    /\ [][/\ SentStep => ~surface.busy /\ surface'.busy
          /\ (~surface.busy /\ surface'.busy) => SentStep
          /\ (surface.busy /\ ~surface'.busy) => ShownStep({"answer", "error"})
          /\ ShownStep({"answer", "error"}) => ~surface'.busy
          /\ ShownStep({"status"}) => surface'.busy = surface.busy
          /\ SettledStep
               => /\ TypesOf(log, last'.ex, {"answer", "error"}) = {}
                  /\ Cardinality(TypesOf(log', last'.ex, {"answer", "error"})) = 1
                  /\ Len(log') = Len(log) + 1
         ]_vars
    /\ [](/\ Len(surface.outbox) + Cardinality(DOMAIN inflight) <= 1
          /\ surface.busy
               <=> \/ surface.outbox # << >>
                   \/ DOMAIN inflight # {}
                   \/ \E i \in DOMAIN log :
                         i > surface.seen /\ log[i].msg.type \in {"answer", "error"})
    /\ surface.busy ~> ~surface.busy

\* Two questions were sent one after the other; one ended in an answer and
\* one in an error, both were shown and the controls are enabled again.
C30_Witness ==
    /\ last.op = "show" /\ ~surface.busy
    /\ nAsks = 2 /\ surface.seen = Len(log) /\ Len(log) = 4
    /\ \E i, j \in DOMAIN log : log[i].msg.type = "answer" /\ log[j].msg.type = "error"

====
